---- MODULE Spec2Model ----
(***************************************************************************)
(* State-machine model of the minio cluster tool: the topology builder     *)
(* (getInfra), the rolling-reboot scheduler (makeHostfile) and the heal    *)
(* orchestrator (heal / healSet).                                          *)
(*                                                                         *)
(* Go strings that are sorted or used as map keys are sequences of         *)
(* one-character strings, compared bytewise as sort.Strings does.          *)
(* A disk endpoint URL is the pair of its hostname and its path.           *)
(* Fields that no decision of the program reads (UUID, disk index,         *)
(* RRSCParity, Rebooted) are left out of the records.                      *)
(***************************************************************************)
EXTENDS Integers, Sequences, FiniteSets, TLC

(* ---- bounds of the model ---- *)
MaxPool == 2        \* pool indexes 0 .. MaxPool-1
MaxSet == 2         \* set indexes 0 .. MaxSet-1
NumHosts == 2       \* hostnames of the enumerated disk lists
MaxDrive == 2       \* drive paths per host
MaxDisks == 3       \* length of the enumerated disk lists
MaxParity == 3      \* StandardSCParity ranges over 2 .. MaxParity
Horizon == 4        \* len(rebootRounds); the source fixes it at 200, scaled here
MaxRuns == 2        \* invocations of the hostfile command on one topology

VARIABLES
    command,        \* os.Args[1]: which command this invocation runs
    info,           \* madmin.StorageInfo: [Disks, StandardSCParity]
    pc,             \* position of the main goroutine
    pools,          \* map[string]*Pool built by getInfra
    setInfo,        \* getInfra's side index keyed by pool key and set key
    totalServers,   \* getInfra's count of Server entities
    poolss,         \* makeHostfile: sorted pool keys
    i,              \* makeHostfile: round index of the outer loop
    pj,             \* makeHostfile: position in poolss of the inner loop
    processed,      \* makeHostfile: servers placed so far
    rebootRounds,   \* makeHostfile: [round][pid] -> map endpoint -> server
    unhealthy,      \* makeHostfile: map endpoint -> server
    reported,       \* makeHostfile: the Total/Online line has been printed
    folder,         \* the output directory: [present, failure, rounds]
    runs,           \* invocations of the command so far
    prevRun,        \* outcomes of the previous invocations (for comparing runs)
    endpoint,       \* the -endpoint flag
    streams,        \* how the admin API answers heal polls: "converging" or "arbitrary"
    api,            \* admin API, per heal unit: [last, zero], the counts it has reported
                    \* (last is kept on converging streams only)
    pending,        \* heal: (pool, set) units the registration loop has yet to reach
    cur,            \* heal: the unit the registration loop is at
    healMap,        \* map "pool/set" -> invalid count
    healMapLock,    \* the mutex: its holder, NoHolder when free
    monitors,       \* the healSet goroutines: unit -> [pc, invalidStates, done, err, complete]
    hostMap,        \* healthCheck: map host -> healthy
    sweep,          \* healthCheck: the hosts the range over hostMap has yet to visit
    unhealthyCount, \* healthCheck: its counter unhealthy
    probing,        \* healthCheck: the host healthPing is calling, NoHost when none
    pinged          \* per host, what its health endpoint answered: [last, failed]

infraVars == <<pools, setInfo, totalServers>>

schedVars == <<poolss, i, pj, processed, rebootRounds, unhealthy, reported, folder,
               runs, prevRun>>

healVars == <<endpoint, streams, api, pending, cur, healMap, healMapLock, monitors>>

healthVars == <<hostMap, sweep, unhealthyCount, probing, pinged>>

(* ---- Go strings ---- *)
Alphabet == <<"0", "1", "2", "3", "4", "5", "6", "7", "8", "9",
              "A", "B", "C", "D", "E", "F", "G", "H">>

CharRank(c) == CHOOSE k \in 1..Len(Alphabet) : Alphabet[k] = c

RECURSIVE StrLess(_, _)
StrLess(a, b) ==
    IF a = <<>> THEN b # <<>>
    ELSE IF b = <<>> THEN FALSE
    ELSE IF Head(a) = Head(b) THEN StrLess(Tail(a), Tail(b))
    ELSE CharRank(Head(a)) < CharRank(Head(b))

RECURSIVE Itoa(_)
Itoa(n) == IF n < 10 THEN <<Alphabet[n + 1]>>
           ELSE Itoa(n \div 10) \o <<Alphabet[(n % 10) + 1]>>

RECURSIVE Atoi(_)
Atoi(s) == IF s = <<>> THEN 0
           ELSE 10 * Atoi(SubSeq(s, 1, Len(s) - 1)) + (CharRank(s[Len(s)]) - 1)

HostName(k) == <<Alphabet[10 + k]>>

(* ---- Go maps ---- *)
EmptyMap == <<>>

Put(m, k, v) == [x \in (DOMAIN m) \cup {k} |-> IF x = k THEN v ELSE m[x]]

Perms(S) == {p \in [1..Cardinality(S) -> S] : \A x \in S : \E k \in DOMAIN p : p[k] = x}

\* the order in which the runtime enumerates the keys of map m, given the
\* order ord it happens to use for the keys it knows
rangeOrder(m, ord) == SelectSeq(ord, LAMBDA k : k \in DOMAIN m)

stringKeysUnsorted(m, ord) == rangeOrder(m, ord)

\* keys of m appended in range order, then sort.Strings
stringKeysSorted(m, ord) == SortSeq(rangeOrder(m, ord), StrLess)

(* ---- the storage-info input ---- *)
Hosts == {HostName(k) : k \in 1..NumHosts}

States == {"ok", "offline"}

DiskRecords == [PoolIndex : 0..(MaxPool - 1), SetIndex : 0..(MaxSet - 1),
                Endpoint : [host : Hosts, path : 1..MaxDrive], State : States]

\* url.Parse(d.Endpoint).Hostname()
Hostname(rawurl) == rawurl.host

DiskRank(d) ==
    ((((d.PoolIndex * MaxSet + d.SetIndex) * Len(Alphabet)
        + CharRank(Hostname(d.Endpoint)[1])) * MaxDrive + d.Endpoint.path) * 2)
    + (IF d.State = "ok" THEN 0 ELSE 1)

\* every multiset of at most MaxDisks disk records, listed in rank order
DiskLists ==
    UNION {{s \in [1..n -> DiskRecords] :
                \A k \in 1..(n - 1) : DiskRank(s[k]) <= DiskRank(s[k + 1])} :
           n \in 0..MaxDisks}

\* one pool, servers A, B, C, D, each holding one disk of set index 0 (Set 1)
ScenarioLists ==
    {[k \in 1..4 |-> [PoolIndex |-> 0, SetIndex |-> 0,
                      Endpoint |-> [host |-> HostName(k), path |-> 1],
                      State |-> st[k]]] : st \in [1..4 -> States]}

\* one pool, one server more than there are rounds, each holding one healthy
\* disk of set index 0
CrowdedLists ==
    {[k \in 1..(Horizon + 1) |-> [PoolIndex |-> 0, SetIndex |-> 0,
                                  Endpoint |-> [host |-> HostName(k), path |-> 1],
                                  State |-> "ok"]]}

Parities == 2..MaxParity

\* lines 482-485: mclient.StorageInfo returned an error; info is the zero value
StorageInfoFailure == [Disks |-> <<>>, StandardSCParity |-> 0, err |-> TRUE]

(* ---- getInfra ---- *)
NewServer(host) == [Sets |-> EmptyMap, Endpoint |-> host, Processed |-> FALSE]

NewSet(parity, SI, PI, canReboot) ==
    [SCParity |-> parity, BadDisks |-> 0, ID |-> SI, Pool |-> PI,
     CanReboot |-> canReboot, Disks |-> EmptyMap]

\* one iteration of the loop over info.Disks; g = [pools, setInfo, totalServers]
addDisk(g, d, parity) ==
    LET PI == Itoa(d.PoolIndex + 1)
        SI == d.SetIndex + 1
        host == Hostname(d.Endpoint)
        pool == IF PI \in DOMAIN g.pools THEN g.pools[PI] ELSE [Servers |-> EmptyMap]
        isNew == host \notin DOMAIN pool.Servers
        server == IF isNew THEN NewServer(host) ELSE pool.Servers[host]
        set == IF SI \in DOMAIN server.Sets THEN server.Sets[SI]
               ELSE NewSet(parity, SI, d.PoolIndex + 1, FALSE)
        setInfoP == IF PI \in DOMAIN g.setInfo THEN g.setInfo[PI] ELSE EmptyMap
        seti == IF Itoa(SI) \in DOMAIN setInfoP THEN setInfoP[Itoa(SI)]
                ELSE NewSet(parity, SI, d.PoolIndex + 1, TRUE)
        seti1 == IF d.State # "ok" THEN [seti EXCEPT !.BadDisks = @ + 1] ELSE seti
        disk == [Pool |-> d.PoolIndex + 1, Server |-> d.Endpoint, Set |-> SI,
                 State |-> d.State]
        set1 == [set EXCEPT !.Disks = Put(@, d.Endpoint, disk)]
        server1 == [server EXCEPT !.Sets = Put(@, SI, set1)]
    IN  [pools |-> Put(g.pools, PI, [Servers |-> Put(pool.Servers, host, server1)]),
         setInfo |-> Put(g.setInfo, PI, Put(setInfoP, Itoa(SI), seti1)),
         totalServers |-> g.totalServers + (IF isNew THEN 1 ELSE 0),
         err |-> g.err]

RECURSIVE addDisks(_, _, _)
addDisks(g, ds, parity) ==
    IF ds = <<>> THEN g ELSE addDisks(addDisk(g, Head(ds), parity), Tail(ds), parity)

canRebootBadNoMargin(seti) == ~(seti.BadDisks >= seti.SCParity)

\* the threshold of the second pass
canReboot(seti) == ~(seti.BadDisks >= (seti.SCParity - 1))

applySetInfoLocal(vvv, si, pkey, iii) ==
    LET bad == Cardinality({e \in DOMAIN vvv.Disks : vvv.Disks[e].State # "ok"})
    IN  [vvv EXCEPT !.CanReboot = ~(bad >= (vvv.SCParity - 1)), !.BadDisks = bad]

\* the second pass: write the global values into one server-local view
applySetInfo(vvv, si, pkey, iii) ==
    IF pkey \in DOMAIN si /\ Itoa(iii) \in DOMAIN si[pkey]
    THEN LET seti == si[pkey][Itoa(iii)]
         IN  [vvv EXCEPT !.CanReboot = canReboot(seti), !.BadDisks = seti.BadDisks]
    ELSE vvv

\* the results of getInfra: pools, totalServers and err, and its local setInfo;
\* on an error of the storage-info call pools is nil and totalServers 0
getInfra(inf) ==
    IF inf.err
    THEN [pools |-> EmptyMap, setInfo |-> EmptyMap, totalServers |-> 0, err |-> TRUE]
    ELSE LET g == addDisks([pools |-> EmptyMap, setInfo |-> EmptyMap, totalServers |-> 0,
                            err |-> FALSE],
                           inf.Disks, inf.StandardSCParity)
         IN  [g EXCEPT !.pools =
                 [pk \in DOMAIN g.pools |->
                     [Servers |->
                         [sk \in DOMAIN g.pools[pk].Servers |->
                             [g.pools[pk].Servers[sk] EXCEPT !.Sets =
                                 [iii \in DOMAIN @ |->
                                     applySetInfo(@[iii], g.setInfo, pk, iii)]]]]]]

\* the default of the -endpoint flag
DefaultEndpoint == <<"1", "2", "7">>

NoHolder == <<>>

NoHost == <<>>

\* no health check is running
HealthIdle ==
    /\ hostMap = EmptyMap
    /\ sweep = {}
    /\ unhealthyCount = 0
    /\ probing = NoHost
    /\ pinged = EmptyMap

(* ---- makeHostfile ---- *)
NoFolder == [present |-> FALSE, failure |-> <<>>, rounds |-> EmptyMap]

NoRun == <<>>

areAllSetsIgnored(s1) == TRUE

areAllSetsOK(s1) == \A set \in DOMAIN s1.Sets : s1.Sets[set].CanReboot

haveNoMatchingSets(s1, s2) == FALSE

haveAlwaysMatchingSets(s1, s2) == TRUE

haveMatchingSets(s1, s2) == \E setid \in DOMAIN s1.Sets : setid \in DOMAIN s2.Sets

\* a *Server held in rebootRounds or unhealthy: the pool key and server key it points at
ServerAt(ps, ref) == ps[ref[1]].Servers[ref[2]]

\* the body of the loop over sortServKey for one server; m = [pools, rounds, unhealthy, processed]
\* where rounds is rebootRounds[i][pid]
visitServer(m, pkey, skey) ==
    LET s == m.pools[pkey].Servers[skey]
    IN  IF s.Processed THEN m
        ELSE IF ~areAllSetsOK(s)
             THEN [m EXCEPT !.unhealthy = Put(@, s.Endpoint, <<pkey, skey>>)]
        ELSE IF s.Endpoint \in DOMAIN m.rounds THEN m
        ELSE IF \E rk \in DOMAIN m.rounds :
                    haveMatchingSets(ServerAt(m.pools, m.rounds[rk]), s)
             THEN m
        ELSE [m EXCEPT !.rounds = Put(@, s.Endpoint, <<pkey, skey>>),
                       !.pools[pkey].Servers[skey].Processed = TRUE,
                       !.processed = @ + 1]

RECURSIVE visitServers(_, _, _)
visitServers(m, pkey, sortServKey) ==
    IF sortServKey = <<>> THEN m
    ELSE visitServers(visitServer(m, pkey, Head(sortServKey)), pkey, Tail(sortServKey))

\* lines 464-485 and 598-602: build the topology and initialise the locals;
\* the err that getInfra returns is assigned and not read
makeHostfileStart ==
    /\ command = "hostfile"
    /\ pc = "start"
    /\ LET g == getInfra(info)
       IN  /\ pools' = g.pools
           /\ setInfo' = g.setInfo
           /\ totalServers' = g.totalServers
           /\ \E ord \in Perms(DOMAIN g.pools) : poolss' = stringKeysSorted(g.pools, ord)
    /\ rebootRounds' = [r \in 0..(Horizon - 1) |-> EmptyMap]
    /\ unhealthy' = EmptyMap
    /\ processed' = 0
    /\ i' = 0
    /\ pj' = 1
    /\ reported' = FALSE
    /\ runs' = runs + 1
    /\ pc' = "rounds"
    /\ UNCHANGED <<command, info, folder, prevRun>>
    /\ UNCHANGED <<healVars, healthVars>>

\* lines 604-607: every server is placed; print the counts and leave the loop
schedulerBreak ==
    /\ pc = "rounds"
    /\ i < Horizon
    /\ pj = 1
    /\ processed >= totalServers
    /\ reported' = TRUE
    /\ pc' = "write"
    /\ UNCHANGED <<command, info, pools, setInfo, totalServers, poolss, i, pj,
                   processed, rebootRounds, unhealthy, folder, runs, prevRun>>
    /\ UNCHANGED <<healVars, healthVars>>

\* lines 609-649: one iteration of the loop over poolss in round i
schedulePool ==
    /\ pc = "rounds"
    /\ i < Horizon
    /\ pj > 1 \/ processed < totalServers
    /\ pj <= Len(poolss)
    /\ LET pkey == poolss[pj]
           pid == Atoi(pkey)
           v == pools[pkey]
           rounds == IF pid \in DOMAIN rebootRounds[i] THEN rebootRounds[i][pid]
                     ELSE EmptyMap
       IN  \E ord \in Perms(DOMAIN v.Servers) :
              LET sortServKey == stringKeysSorted(v.Servers, ord)
                  m == visitServers([pools |-> pools, rounds |-> rounds,
                                     unhealthy |-> unhealthy, processed |-> processed],
                                    pkey, sortServKey)
              IN  /\ pools' = m.pools
                  /\ rebootRounds' = [rebootRounds EXCEPT ![i] = Put(@, pid, m.rounds)]
                  /\ unhealthy' = m.unhealthy
                  /\ processed' = m.processed
    /\ IF pj = Len(poolss) THEN i' = i + 1 /\ pj' = 1 ELSE i' = i /\ pj' = pj + 1
    /\ UNCHANGED <<command, info, pc, setInfo, totalServers, poolss, reported,
                   folder, runs, prevRun>>
    /\ UNCHANGED <<healVars, healthVars>>

\* line 603: the loop condition fails, all rounds are used up; nothing is printed
schedulerExhausted ==
    /\ pc = "rounds"
    /\ i = Horizon
    /\ pc' = "write"
    /\ UNCHANGED <<command, info, pools, setInfo, totalServers, poolss, i, pj,
                   processed, rebootRounds, unhealthy, reported, folder, runs, prevRun>>
    /\ UNCHANGED <<healVars, healthVars>>

\* the endpoints a range over map m yields, in order ord
rangeEndpoints(m, ord) ==
    LET ks == rangeOrder(m, ord) IN [k \in 1..Len(ks) |-> ServerAt(pools, m[ks[k]]).Endpoint]

RECURSIVE roundLines(_, _, _)
\* lines 674-690 for round ri: the array rv in index order from pid on, each
\* non-empty map appending its sorted endpoints to the round file
roundLines(rv, pid, ord) ==
    IF pid > MaxPool THEN <<>>
    ELSE (IF pid \in DOMAIN rv /\ DOMAIN rv[pid] # {}
          THEN LET rv2 == rv[pid]
                   srvSort == stringKeysSorted(rv2, ord)
               IN  [k \in 1..Len(srvSort) |-> ServerAt(pools, rv2[srvSort[k]]).Endpoint]
          ELSE <<>>) \o roundLines(rv, pid + 1, ord)

AllHostnames == UNION {DOMAIN pools[pk].Servers : pk \in DOMAIN pools}

\* lines 652-691: clear the folder, write the failure file and the round files
writeFiles ==
    /\ pc = "write"
    /\ \E ord \in Perms(AllHostnames) :
          folder' =
            [present |-> TRUE,
             failure |-> rangeEndpoints(unhealthy, ord),
             rounds |->
                LET lines == [ri \in 0..(Horizon - 1) |->
                                roundLines(rebootRounds[ri], 0, ord)]
                IN  [ri \in {r \in 0..(Horizon - 1) : lines[r] # <<>>} |-> lines[ri]]]
    /\ pc' = "exit"
    /\ UNCHANGED <<command, info, pools, setInfo, totalServers, poolss, i, pj,
                   processed, rebootRounds, unhealthy, reported, runs, prevRun>>
    /\ UNCHANGED <<healVars, healthVars>>

Outcome == [rebootRounds |-> rebootRounds, unhealthy |-> DOMAIN unhealthy,
            rounds |-> folder.rounds]

\* the operator runs the command again on the same cluster
runAgain ==
    /\ command = "hostfile"
    /\ pc = "exit"
    /\ runs < MaxRuns
    /\ prevRun' = <<Outcome>>
    /\ pc' = "start"
    /\ UNCHANGED <<command, info, pools, setInfo, totalServers, poolss, i, pj,
                   processed, rebootRounds, unhealthy, reported, folder, runs>>
    /\ UNCHANGED <<healVars, healthVars>>

TopologyInputs ==
    [Disks : DiskLists \cup ScenarioLists \cup CrowdedLists, StandardSCParity : Parities,
     err : {FALSE}]
        \cup {StorageInfoFailure}

Init ==
    /\ command = "hostfile"
    /\ info \in TopologyInputs
    /\ pc = "start"
    /\ pools = EmptyMap
    /\ setInfo = EmptyMap
    /\ totalServers = 0
    /\ poolss = <<>>
    /\ i = 0
    /\ pj = 1
    /\ processed = 0
    /\ rebootRounds = EmptyMap
    /\ unhealthy = EmptyMap
    /\ reported = FALSE
    /\ folder = NoFolder
    /\ runs = 0
    /\ prevRun = NoRun
    /\ endpoint = DefaultEndpoint
    /\ streams = "arbitrary"
    /\ api = EmptyMap
    /\ pending = {}
    /\ cur = <<>>
    /\ healMap = EmptyMap
    /\ healMapLock = NoHolder
    /\ monitors = EmptyMap
    /\ HealthIdle

Next ==
    \/ makeHostfileStart
    \/ schedulerBreak
    \/ schedulePool
    \/ schedulerExhausted
    \/ writeFiles
    \/ runAgain

vars == <<command, info, pc, infraVars, schedVars, healthVars, healVars>>

Spec == Init /\ [][Next]_vars

(* ---- heal: bounds and the admin API ---- *)
MaxHealDisks == 2   \* length of the disk lists of the heal command
MaxItems == 2       \* items in one heal status batch

HealDiskLists ==
    UNION {{s \in [1..n -> {d \in DiskRecords : d.State = "ok" /\ d.Endpoint.path = 1}] :
                \A k \in 1..(n - 1) : DiskRank(s[k]) <= DiskRank(s[k + 1])} :
           n \in 1..MaxHealDisks}

\* one madmin.HealResultItem, as its six counts: missing, corrupted and offline
\* drives before and after the repair attempt
Item(mb, ma, cb, ca, ofb, ofa) ==
    [mb |-> mb, ma |-> ma, cb |-> cb, ca |-> ca, ofb |-> ofb, ofa |-> ofa]

ItemKinds == {Item(0, 0, 0, 0, 0, 0),    \* intact object
              Item(1, 0, 0, 0, 0, 0),    \* was missing, repaired
              Item(1, 1, 0, 0, 0, 0),    \* still missing
              Item(0, 0, 1, 1, 0, 0),    \* still corrupted
              Item(0, 0, 0, 0, 1, 1)}    \* still offline

\* what one mclient.Heal call returns: an error, or a status batch
ItemRank(it) == it.mb + 2 * it.ma + 4 * it.ca + 8 * it.ofa

\* batches of at most MaxItems items, listed in rank order
Batches ==
    UNION {{b \in [1..n -> ItemKinds] :
                \A k \in 1..(n - 1) : ItemRank(b[k]) <= ItemRank(b[k + 1])} :
           n \in 0..MaxItems}

Responses ==
    {[err |-> TRUE, Items |-> <<>>, Complete |-> FALSE]} \cup
    [err : {FALSE}, Items : Batches, Complete : BOOLEAN]

RECURSIVE SumAfter(_)
SumAfter(items) ==
    IF items = <<>> THEN 0
    ELSE Head(items).ma + Head(items).ca + Head(items).ofa + SumAfter(Tail(items))

\* the answers the admin API may give to a poll of unit u
Answers(u) ==
    IF streams = "arbitrary" THEN Responses
    ELSE {r \in Responses :
            /\ ~r.err
            /\ \/ SumAfter(r.Items) < api[u].last
               \/ api[u].last = 0 /\ SumAfter(r.Items) = 0
            /\ r.Complete <=> (SumAfter(r.Items) = 0)}

\* the first heal call fails only on a stream that may do anything
StartAnswers == IF streams = "arbitrary" THEN {TRUE, FALSE} ELSE {FALSE}

(* ---- healSet ---- *)
\* fmt.Sprintf("%d/%d", a, b)
Sprintf(a, b) == Itoa(a) \o <<"/">> \o Itoa(b)

\* line 335: the key heal() registers unit (poolIndex, setIndex) under
healRegisterKey(poolIndex, setIndex) == Sprintf(poolIndex, setIndex)

\* lines 233 and 305: the key healSet(poolIndex, setIndex) writes to
healSetKey(poolIndex, setIndex) == Sprintf(poolIndex, poolIndex)

\* lines 292-302, the invalid count of a batch
invalidStatesOf(items) == SumAfter(items)

\* lines 290-302, the done flag of a batch
doneOf(items) ==
    \A k \in DOMAIN items :
        items[k].mb + items[k].ma + items[k].cb + items[k].ca
            + items[k].ofb + items[k].ofa = 0

\* the position and the locals of one healSet goroutine: err is the error of
\* its last heal call, complete the completion flag of the status it last got
Monitor(pcu, inv, dn) ==
    [pc |-> pcu, invalidStates |-> inv, done |-> dn, err |-> FALSE, complete |-> FALSE]

Units == (0..(MaxPool - 1)) \X (0..(MaxSet - 1))

\* lines 237-259: the first heal call
healSetStart(u) ==
    /\ u \in DOMAIN monitors
    /\ monitors[u].pc = "start"
    /\ \E failed \in StartAnswers :
          monitors' = [monitors EXCEPT ![u].pc = IF failed THEN "defer" ELSE "poll",
                                       ![u].err = failed]
    /\ UNCHANGED <<command, info, pc, infraVars, schedVars, healthVars, endpoint, streams, api,
                   pending, cur, healMap, healMapLock>>

\* lines 262-302: sleep, poll, and sum the batch
healSetPoll(u) ==
    /\ u \in DOMAIN monitors
    /\ monitors[u].pc = "poll"
    /\ \E r \in Answers(u) :
          IF r.err
          THEN /\ monitors' = [monitors EXCEPT ![u] =
                                 [Monitor("defer", 0, FALSE) EXCEPT !.err = TRUE]]
               /\ api' = api
          ELSE /\ monitors' = [monitors EXCEPT ![u] =
                                 [Monitor("update", invalidStatesOf(r.Items),
                                          doneOf(r.Items))
                                     EXCEPT !.complete = r.Complete]]
               /\ api' = [api EXCEPT ![u] =
                            [last |-> IF streams = "arbitrary" THEN @.last
                                      ELSE SumAfter(r.Items),
                             zero |-> @.zero \/ SumAfter(r.Items) = 0]]
    /\ UNCHANGED <<command, info, pc, infraVars, schedVars, healthVars, endpoint, streams,
                   pending, cur, healMap, healMapLock>>

healSetLockNoWait(u) ==
    /\ u \in DOMAIN monitors
    /\ monitors[u].pc = "update"
    /\ healMapLock' = <<"healSet", u[1], u[2]>>
    /\ monitors' = [monitors EXCEPT ![u].pc = "locked"]
    /\ UNCHANGED <<command, info, pc, infraVars, schedVars, healthVars, endpoint, streams, api,
                   pending, cur, healMap>>

\* line 304
healSetLock(u) ==
    /\ u \in DOMAIN monitors
    /\ monitors[u].pc = "update"
    /\ healMapLock = NoHolder
    /\ healMapLock' = <<"healSet", u[1], u[2]>>
    /\ monitors' = [monitors EXCEPT ![u].pc = "locked"]
    /\ UNCHANGED <<command, info, pc, infraVars, schedVars, healthVars, endpoint, streams, api,
                   pending, cur, healMap>>

\* lines 305-309
healSetUpdate(u) ==
    /\ u \in DOMAIN monitors
    /\ monitors[u].pc = "locked"
    /\ healMap' = Put(healMap, healSetKey(u[1], u[2]), monitors[u].invalidStates)
    /\ healMapLock' = NoHolder
    /\ monitors' = [monitors EXCEPT ![u] =
                      Monitor(IF @.done THEN "defer" ELSE "poll", 0, FALSE)]
    /\ UNCHANGED <<command, info, pc, infraVars, schedVars, healthVars, endpoint, streams, api,
                   pending, cur>>

\* lines 227-232: the deferred function takes the mutex
healSetDeferLock(u) ==
    /\ u \in DOMAIN monitors
    /\ monitors[u].pc = "defer"
    /\ healMapLock = NoHolder
    /\ healMapLock' = <<"healSet", u[1], u[2]>>
    /\ monitors' = [monitors EXCEPT ![u].pc = "deferLocked"]
    /\ UNCHANGED <<command, info, pc, infraVars, schedVars, healthVars, endpoint, streams, api,
                   pending, cur, healMap>>

\* lines 233-235
healSetDeferWrite(u) ==
    /\ u \in DOMAIN monitors
    /\ monitors[u].pc = "deferLocked"
    /\ healMap' = Put(healMap, healSetKey(u[1], u[2]), 0)
    /\ healMapLock' = NoHolder
    /\ monitors' = [monitors EXCEPT ![u].pc = "exited"]
    /\ UNCHANGED <<command, info, pc, infraVars, schedVars, healthVars, endpoint, streams, api,
                   pending, cur>>

(* ---- heal ---- *)
\* lines 325-333: the (poolIndex-1, si-1) pairs the loops reach
healUnits(ps, ep) ==
    UNION {UNION {{<<Atoi(pk) - 1, si - 1>> : si \in DOMAIN ps[pk].Servers[sk].Sets} :
                  sk \in {k \in DOMAIN ps[pk].Servers :
                            \/ ep = ps[pk].Servers[k].Endpoint
                            \/ Cardinality(DOMAIN ps[pk].Servers) = 1}} :
           pk \in DOMAIN ps}

\* lines 320-323; an err of getInfra panics
healStart ==
    /\ command = "heal"
    /\ pc = "start"
    /\ LET g == getInfra(info)
       IN  /\ ~g.err
           /\ pools' = g.pools
           /\ setInfo' = g.setInfo
           /\ totalServers' = g.totalServers
           /\ pending' = healUnits(g.pools, endpoint)
    /\ pc' = "register"
    /\ UNCHANGED <<command, info, schedVars, healthVars, endpoint, streams, api, cur, healMap,
                   healMapLock, monitors>>

\* line 334, at the next unit in range order
healRegisterLock ==
    /\ command = "heal"
    /\ pc = "register"
    /\ healMapLock = NoHolder
    /\ \E u \in pending : cur' = u
    /\ healMapLock' = <<"heal">>
    /\ pc' = "registerLocked"
    /\ UNCHANGED <<command, info, infraVars, schedVars, healthVars, endpoint, streams, api,
                   pending, healMap, monitors>>

\* lines 335-337
healRegister ==
    /\ command = "heal"
    /\ pc = "registerLocked"
    /\ healMap' = Put(healMap, healRegisterKey(cur[1], cur[2]), 1)
    /\ healMapLock' = NoHolder
    /\ monitors' = Put(monitors, cur, Monitor("start", 0, FALSE))
    /\ api' = Put(api, cur, [last |-> MaxItems + 1, zero |-> FALSE])
    /\ pending' = pending \ {cur}
    /\ cur' = <<>>
    /\ pc' = "register"
    /\ UNCHANGED <<command, info, infraVars, schedVars, healthVars, endpoint, streams>>

\* lines 341-343: the loops are over
healRegistered ==
    /\ command = "heal"
    /\ pc = "register"
    /\ pending = {}
    /\ pc' = "aggregate"
    /\ UNCHANGED <<command, info, infraVars, schedVars, healthVars, healVars>>

\* lines 345-346
healAggregateLock ==
    /\ command = "heal"
    /\ pc = "aggregate"
    /\ healMapLock = NoHolder
    /\ healMapLock' = <<"heal">>
    /\ pc' = "aggregateLocked"
    /\ UNCHANGED <<command, info, infraVars, schedVars, healthVars, endpoint, streams, api,
                   pending, cur, healMap, monitors>>

RECURSIVE SumValues(_, _)
SumValues(m, keys) ==
    IF keys = {} THEN 0
    ELSE LET k == CHOOSE x \in keys : TRUE IN m[k] + SumValues(m, keys \ {k})

\* lines 347-350
brokenOf(m) == SumValues(m, DOMAIN m)

\* lines 347-356
healAggregate ==
    /\ command = "heal"
    /\ pc = "aggregateLocked"
    /\ healMapLock' = NoHolder
    /\ pc' = IF brokenOf(healMap) = 0 THEN "done" ELSE "aggregate"
    /\ UNCHANGED <<command, info, infraVars, schedVars, healthVars, endpoint, streams, api,
                   pending, cur, healMap, monitors>>

HealInitWith(kind) ==
    /\ command = "heal"
    /\ info \in [Disks : HealDiskLists, StandardSCParity : {2}, err : {FALSE}]
    /\ endpoint \in Hosts \cup {DefaultEndpoint}
    /\ streams = kind
    /\ pc = "start"
    /\ pools = EmptyMap
    /\ setInfo = EmptyMap
    /\ totalServers = 0
    /\ poolss = <<>>
    /\ i = 0
    /\ pj = 1
    /\ processed = 0
    /\ rebootRounds = EmptyMap
    /\ unhealthy = EmptyMap
    /\ reported = FALSE
    /\ folder = NoFolder
    /\ runs = 0
    /\ prevRun = NoRun
    /\ api = EmptyMap
    /\ pending = {}
    /\ cur = <<>>
    /\ healMap = EmptyMap
    /\ healMapLock = NoHolder
    /\ monitors = EmptyMap
    /\ HealthIdle

healSetStep(u) == healSetStart(u) \/ healSetPoll(u) \/ healSetUpdate(u) \/ healSetDeferWrite(u)

healSetAcquire(u) == healSetLock(u) \/ healSetDeferLock(u)

healStep == healStart \/ healRegister \/ healRegistered \/ healAggregate

healAcquire == healRegisterLock \/ healAggregateLock

HealNext ==
    \/ healStart
    \/ healRegisterLock
    \/ healRegister
    \/ healRegistered
    \/ healAggregateLock
    \/ healAggregate
    \/ \E u \in Units :
          \/ healSetStart(u)
          \/ healSetPoll(u)
          \/ healSetLock(u)
          \/ healSetUpdate(u)
          \/ healSetDeferLock(u)
          \/ healSetDeferWrite(u)

\* the admin API may answer anything
HealInit == HealInitWith("arbitrary")

HealSpec == HealInit /\ [][HealNext]_vars

\* the admin API reports a count that strictly decreases to zero, then completion
HealConvergingInit == HealInitWith("converging")

\* every goroutine keeps running, and sync.Mutex hands the lock to a waiter
\* that keeps asking for it
HealFairness ==
    /\ WF_vars(healStep)
    /\ SF_vars(healAcquire)
    /\ \A u \in Units : WF_vars(healSetStep(u)) /\ SF_vars(healSetAcquire(u))

HealFairSpec == HealConvergingInit /\ [][HealNext]_vars /\ HealFairness

(* ---- healthCheck ---- *)
MaxHostLines == 3   \* lines of the hostfile of the health command
MaxHealthHosts == 3 \* host names that occur in the hostfile

HealthHosts == {HostName(k) : k \in 1..MaxHealthHosts}

\* the lines of a hostfile: host names and empty lines
HostFiles ==
    UNION {[1..n -> HealthHosts \cup {<<>>}] : n \in 0..MaxHostLines}

\* the zero madmin.StorageInfo of a command that does not load the topology
NoInfo == [Disks |-> <<>>, StandardSCParity |-> 0, err |-> FALSE]

\* lines 755-761: one entry, unhealthy, for every non-empty line
newHostMap(hostsList) ==
    [h \in {hostsList[k] : k \in {x \in DOMAIN hostsList : Len(hostsList[x]) >= 1}} |-> FALSE]

\* what healthPing returns, as (healthy, err): a transport error, a status
\* other than 200, or status 200
PingOutcomes == {[healthy |-> FALSE, err |-> TRUE],
                 [healthy |-> FALSE, err |-> FALSE],
                 [healthy |-> TRUE, err |-> FALSE]}

markAllHealthy(m, host, r) == [m EXCEPT ![host] = TRUE]

\* lines 785-795: the new hostMap after healthPing(host) returned r
markHost(m, host, r) ==
    IF r.err THEN [m EXCEPT ![host] = FALSE]
    ELSE IF ~r.healthy THEN [m EXCEPT ![host] = FALSE]
    ELSE [m EXCEPT ![host] = TRUE]

\* lines 785-795: the new value of the counter unhealthy
countHost(n, r) == IF r.err \/ ~r.healthy THEN n + 1 ELSE n

\* lines 749-779: read the hostfile, build hostMap, enter the first sweep
healthCheckStart ==
    /\ command = "health"
    /\ pc = "start"
    /\ \E hostsList \in HostFiles :
          /\ hostMap' = newHostMap(hostsList)
          /\ sweep' = DOMAIN newHostMap(hostsList)
          /\ pinged' = [h \in DOMAIN newHostMap(hostsList) |->
                          [last |-> "none", failed |-> FALSE]]
    /\ unhealthyCount' = 0
    /\ probing' = NoHost
    /\ pc' = "sweep"
    /\ UNCHANGED <<command, info, infraVars, schedVars, healVars>>

\* lines 780-783: the range reaches a host that is marked healthy
healthSkip ==
    /\ command = "health"
    /\ pc = "sweep"
    /\ \E host \in sweep :
          /\ hostMap[host]
          /\ sweep' = sweep \ {host}
    /\ UNCHANGED <<command, info, pc, infraVars, schedVars, healVars,
                   hostMap, unhealthyCount, probing, pinged>>

\* line 784: the range reaches a host not marked healthy and calls healthPing
healthPingCall ==
    /\ command = "health"
    /\ pc = "sweep"
    /\ \E host \in sweep :
          /\ ~hostMap[host]
          /\ sweep' = sweep \ {host}
          /\ probing' = host
    /\ pc' = "ping"
    /\ UNCHANGED <<command, info, infraVars, schedVars, healVars,
                   hostMap, unhealthyCount, pinged>>

\* lines 785-795 and 888-906: healthPing returns and the host is marked
healthPingReturn ==
    /\ command = "health"
    /\ pc = "ping"
    /\ \E r \in PingOutcomes :
          /\ hostMap' = markHost(hostMap, probing, r)
          /\ unhealthyCount' = countHost(unhealthyCount, r)
          /\ pinged' = [pinged EXCEPT ![probing] =
                          [last |-> IF r.err THEN "error"
                                    ELSE IF r.healthy THEN "ok" ELSE "waiting",
                           failed |-> @.failed \/ r.err \/ ~r.healthy]]
    /\ probing' = NoHost
    /\ pc' = "sweep"
    /\ UNCHANGED <<command, info, infraVars, schedVars, healVars, sweep>>

\* lines 797-799: the sweep is over and found no unhealthy host
healthCheckReturn ==
    /\ command = "health"
    /\ pc = "sweep"
    /\ sweep = {}
    /\ unhealthyCount = 0
    /\ pc' = "exit"
    /\ UNCHANGED <<command, info, infraVars, schedVars, healVars, healthVars>>

\* lines 779 and 800-801: print the count, sleep, start the next sweep
healthNextSweep ==
    /\ command = "health"
    /\ pc = "sweep"
    /\ sweep = {}
    /\ unhealthyCount # 0
    /\ unhealthyCount' = 0
    /\ sweep' = DOMAIN hostMap
    /\ UNCHANGED <<command, info, pc, infraVars, schedVars, healVars,
                   hostMap, probing, pinged>>

HealthInit ==
    /\ command = "health"
    /\ info = NoInfo
    /\ pc = "start"
    /\ pools = EmptyMap
    /\ setInfo = EmptyMap
    /\ totalServers = 0
    /\ poolss = <<>>
    /\ i = 0
    /\ pj = 1
    /\ processed = 0
    /\ rebootRounds = EmptyMap
    /\ unhealthy = EmptyMap
    /\ reported = FALSE
    /\ folder = NoFolder
    /\ runs = 0
    /\ prevRun = NoRun
    /\ endpoint = DefaultEndpoint
    /\ streams = "arbitrary"
    /\ api = EmptyMap
    /\ pending = {}
    /\ cur = <<>>
    /\ healMap = EmptyMap
    /\ healMapLock = NoHolder
    /\ monitors = EmptyMap
    /\ HealthIdle

HealthNext ==
    \/ healthCheckStart
    \/ healthSkip
    \/ healthPingCall
    \/ healthPingReturn
    \/ healthCheckReturn
    \/ healthNextSweep

\* the loop of healthCheck keeps running: a ping returns, a sleep ends
HealthSpec == HealthInit /\ [][HealthNext]_vars /\ WF_vars(HealthNext)

(* ---- state functions used by the properties ---- *)
\* the servers (pool key, server key) held in round r
RoundServers(r) ==
    {rebootRounds[r][pid][e] : <<pid, e>> \in
        UNION {{<<q, f>> : f \in DOMAIN rebootRounds[r][q]} : q \in DOMAIN rebootRounds[r]}}

AllServers == UNION {{<<pk, sk>> : sk \in DOMAIN pools[pk].Servers} : pk \in DOMAIN pools}

\* the erasure sets (pool, set id) a server participates in
SetsOf(ref) ==
    LET s == ServerAt(pools, ref)
    IN  {<<s.Sets[x].Pool, s.Sets[x].ID>> : x \in DOMAIN s.Sets}

\* the drives (server, pool, set id, endpoint) a server holds
DrivesOf(ref) ==
    LET s == ServerAt(pools, ref)
    IN  UNION {{<<ref, s.Sets[x].Pool, s.Sets[x].ID, e>> : e \in DOMAIN s.Sets[x].Disks} :
               x \in DOMAIN s.Sets}

RoundsOfServer(ref) == {r \in DOMAIN rebootRounds : ref \in RoundServers(r)}

RoundsOfEndpoint(h) == {r \in DOMAIN rebootRounds : \E ref \in RoundServers(r) : ref[2] = h}

Scheduled == command = "hostfile" /\ pc \in {"write", "exit"}

\* bad disks of (pool, set id) counted over the records of the storage info
BadRecords(pool, id) ==
    Cardinality({k \in DOMAIN info.Disks :
                    /\ info.Disks[k].PoolIndex + 1 = pool
                    /\ info.Disks[k].SetIndex + 1 = id
                    /\ info.Disks[k].State # "ok"})

ScenarioStates(st) ==
    /\ Len(info.Disks) = 4
    /\ \A k \in 1..4 :
          info.Disks[k] = [PoolIndex |-> 0, SetIndex |-> 0,
                           Endpoint |-> [host |-> HostName(k), path |-> 1],
                           State |-> st[k]]
    /\ info.StandardSCParity = 2

(* ---- C1 ---- *)
\* C1: in every round, no two distinct servers share membership in any
\* erasure set (pool, set id), whatever the set's health.
SchedulerSafety ==
    \A r \in DOMAIN rebootRounds :
        \A a \in RoundServers(r) : \A b \in RoundServers(r) :
            a # b => SetsOf(a) \cap SetsOf(b) = {}

\* two distinct servers of one pool have been placed in the same round
SchedulerSafetyWitness ==
    /\ Scheduled
    /\ \E r \in DOMAIN rebootRounds :
          \E a \in RoundServers(r) : \E b \in RoundServers(r) : a # b /\ a[1] = b[1]

(* ---- C2 ---- *)
\* C2: the servers of one round never hold two drives of the same erasure set
\* between them, so rebooting a round takes at most one drive of a set offline.
RoundTakesOneDrivePerSet ==
    \A r \in DOMAIN rebootRounds :
        \A a \in RoundServers(r) : \A b \in RoundServers(r) :
            \A x \in DrivesOf(a) : \A y \in DrivesOf(b) :
                (x # y) => <<x[2], x[3]>> # <<y[2], y[3]>>

(* ---- C3 ---- *)
\* C3: when the scheduler has finished, every server endpoint is in exactly
\* one round or in the failure list, never in both and never in neither.
SchedulerCompleteness ==
    Scheduled =>
        \A h \in AllHostnames :
            \/ h \in DOMAIN unhealthy /\ RoundsOfEndpoint(h) = {}
            \/ h \notin DOMAIN unhealthy /\ Cardinality(RoundsOfEndpoint(h)) = 1

(* ---- C4 ---- *)
\* C4: a server is in a round only if all its sets have CanReboot; a server
\* with a set that cannot reboot is in the failure list and in no round.
Eligibility ==
    Scheduled =>
        \A ref \in AllServers :
            LET s == ServerAt(pools, ref)
                ok == \A x \in DOMAIN s.Sets : s.Sets[x].CanReboot
            IN  /\ RoundsOfServer(ref) # {} => ok
                /\ ~ok => s.Endpoint \in DOMAIN unhealthy /\ RoundsOfServer(ref) = {}

\* one pool holds a server that cannot reboot and a server that was placed
EligibilityWitness ==
    /\ Scheduled
    /\ \E a \in AllServers : \E b \in AllServers :
          /\ a[1] = b[1]
          /\ \E x \in DOMAIN ServerAt(pools, a).Sets : ~ServerAt(pools, a).Sets[x].CanReboot
          /\ a[2] \in DOMAIN unhealthy
          /\ RoundsOfServer(b) # {}

(* ---- C5 ---- *)
\* C5: after getInfra every server-local view of set (pool, id) carries the
\* global bad-disk count, and CanReboot iff that count < SCParity - 1.
GlobalCanReboot ==
    runs >= 1 =>
        \A ref \in AllServers :
            LET s == ServerAt(pools, ref)
            IN  \A x \in DOMAIN s.Sets :
                    /\ s.Sets[x].BadDisks = BadRecords(s.Sets[x].Pool, s.Sets[x].ID)
                    /\ s.Sets[x].CanReboot <=>
                         (BadRecords(s.Sets[x].Pool, s.Sets[x].ID) < s.Sets[x].SCParity - 1)

\* parity 2, one bad disk in a set seen by two servers: the view of the server
\* whose own disk is fine is marked not rebootable too
GlobalCanRebootWitness ==
    /\ runs >= 1
    /\ info.StandardSCParity = 2
    /\ \E a \in AllServers : \E b \in AllServers :
          /\ a # b /\ a[1] = b[1]
          /\ \E x \in DOMAIN ServerAt(pools, a).Sets :
                /\ x \in DOMAIN ServerAt(pools, b).Sets
                /\ ServerAt(pools, a).Sets[x].BadDisks = 1
                /\ ~ServerAt(pools, a).Sets[x].CanReboot
                /\ \A e \in DOMAIN ServerAt(pools, a).Sets[x].Disks :
                      ServerAt(pools, a).Sets[x].Disks[e].State = "ok"

(* ---- C6 ---- *)
NonEmptyRounds == {r \in DOMAIN rebootRounds : RoundServers(r) # {}}

DegradedScenario ==
    /\ ScenarioStates(<<"ok", "ok", "ok", "offline">>)
    /\ command = "hostfile" /\ pc = "exit"

\* C6 as claimed: with the bad disk of Set 1 on D, D is in the failure list
\* and A, B, C are scheduled across 3 rounds of one server each.
DegradedOnlyDFails ==
    DegradedScenario =>
        /\ DOMAIN unhealthy = {HostName(4)}
        /\ NonEmptyRounds = 0..2
        /\ \A r \in 0..2 : Cardinality(RoundServers(r)) = 1
        /\ \A k \in 1..3 : RoundsOfEndpoint(HostName(k)) # {}

\* C6 as the code behaves: the bad disk of Set 1 makes every view of Set 1
\* not rebootable, so A, B, C and D are all in the failure list and no round
\* holds a server.
DegradedAllFail ==
    DegradedScenario =>
        /\ DOMAIN unhealthy = {HostName(k) : k \in 1..4}
        /\ Len(folder.failure) = 4
        /\ {folder.failure[k] : k \in 1..4} = {HostName(k) : k \in 1..4}
        /\ NonEmptyRounds = {}
        /\ DOMAIN folder.rounds = {}

DegradedAllFailWitness ==
    /\ DegradedScenario
    /\ runs = 1
    /\ ~reported
    /\ \A ref \in AllServers : ServerAt(pools, ref).Sets[1].BadDisks = 1

(* ---- C7 ---- *)
HealthyScenario ==
    /\ ScenarioStates(<<"ok", "ok", "ok", "ok">>)
    /\ command = "hostfile" /\ pc = "exit"

\* C7: four healthy servers sharing Set 1 give exactly 4 non-empty rounds of
\* one server each and an empty failure list.
HealthyFourRounds ==
    HealthyScenario =>
        /\ NonEmptyRounds = 0..3
        /\ \A r \in 0..3 : Cardinality(RoundServers(r)) = 1
        /\ \A k \in 1..4 : Cardinality(RoundsOfEndpoint(HostName(k))) = 1
        /\ DOMAIN unhealthy = {}
        /\ folder.failure = <<>>
        /\ DOMAIN folder.rounds = 0..3
        /\ \A r \in 0..3 : Len(folder.rounds[r]) = 1

HealthyFourRoundsWitness ==
    /\ HealthyScenario
    /\ runs = 1
    /\ processed = 4
    /\ RoundServers(3) # {}

(* ---- C8 ---- *)
\* C8: a second run on the same topology ends with the same servers in the
\* same rounds and the same failure set as the first run.
RunsAgree ==
    (command = "hostfile" /\ pc = "exit" /\ prevRun # NoRun) => Outcome = prevRun[1]

\* a second run has ended on a topology where the order of the servers decides
\* the rounds and a server failed
RunsAgreeWitness ==
    /\ command = "hostfile" /\ pc = "exit" /\ prevRun # NoRun
    /\ DOMAIN unhealthy # {}
    /\ \E a \in RoundServers(0) : \E b \in RoundServers(1) : a[1] = b[1]

(* ---- C9 ---- *)
HealDone == command = "heal" /\ pc = "done"

\* C9: when every unit's status stream reports an invalid count that strictly
\* decreases to zero and then completion, heal() eventually prints done.
HealConverges == (streams = "converging") => <>HealDone

(* ---- C10 ---- *)
\* C10: heal() declares success only when the status stream of every
\* registered unit has reported an invalid count of zero.
SuccessOnlyAfterZero == HealDone => \A u \in DOMAIN monitors : api[u].zero

(* ---- C11 ---- *)
\* the (pool, set) pairs of the storage info
TopologyUnits == {<<info.Disks[k].PoolIndex, info.Disks[k].SetIndex>> : k \in DOMAIN info.Disks}

HealRegistrationOver == command = "heal" /\ pc \in {"aggregate", "aggregateLocked", "done"}

\* C11: once heal() has left its registration loops, exactly one monitor has
\* been started for every (pool, set) pair of the topology, whatever the
\* configured endpoint is.
EveryUnitMonitored == HealRegistrationOver => DOMAIN monitors = TopologyUnits

(* ---- C12 ---- *)
\* C12: a monitor whose heal call returned an error stops polling, and its
\* exit leaves its entry of the progress map at the value it had before the
\* error.
ErrorFreezesEntry ==
    /\ [](\A u \in DOMAIN monitors :
            monitors[u].err => monitors[u].pc \in {"defer", "deferLocked", "exited"})
    /\ [][\A u \in DOMAIN monitors :
            (monitors[u].err /\ monitors[u].pc = "deferLocked" /\ monitors'[u].pc = "exited")
                => healMap'[healRegisterKey(u[1], u[2])] = healMap[healRegisterKey(u[1], u[2])]]_vars

(* ---- C18 ---- *)
\* C18: a monitor leaves its polling loop only after a batch that reports the
\* scan complete and has an invalid count of zero; after any other batch it
\* polls again.
ExitOnlyWhenComplete ==
    [][\A u \in DOMAIN monitors :
          (monitors[u].pc = "locked" /\ monitors'[u].pc = "defer")
              => (monitors[u].complete /\ monitors[u].invalidStates = 0)]_vars

(* ---- C17 ---- *)
\* C17: every write of the monitor of unit (p, s) to the progress map, the
\* per-poll update and the write on exit, changes no key but "p/s", the key
\* heal() registered the unit under.
MonitorWritesOwnKey ==
    [][\A u \in DOMAIN monitors :
          (monitors[u].pc \in {"locked", "deferLocked"} /\ monitors'[u].pc # monitors[u].pc)
              => /\ DOMAIN healMap' \subseteq DOMAIN healMap \cup {healRegisterKey(u[1], u[2])}
                 /\ \A k \in DOMAIN healMap :
                       k # healRegisterKey(u[1], u[2]) => healMap'[k] = healMap[k]]_vars

(* ---- C13 ---- *)
\* C13: when the storage-info call fails, makeHostfile leaves the output
\* directory as it was: it is not cleared and no failure or round file is written.
TopologyFailureAborts == (command = "hostfile" /\ info.err) => folder = NoFolder

(* ---- C15 ---- *)
\* the disks stored in the server views of (pool key pk, set id)
StoredDisks(pk, id) ==
    UNION {{<<sk, e>> : e \in DOMAIN pools[pk].Servers[sk].Sets[id].Disks} :
           sk \in {k \in DOMAIN pools[pk].Servers : id \in DOMAIN pools[pk].Servers[k].Sets}}

\* the (server, set) views that store a disk with endpoint e
ViewsOfDisk(e) ==
    {v \in UNION {UNION {{<<pk, sk, id>> : id \in DOMAIN pools[pk].Servers[sk].Sets} :
                         sk \in DOMAIN pools[pk].Servers} : pk \in DOMAIN pools} :
        e \in DOMAIN pools[v[1]].Servers[v[2]].Sets[v[3]].Disks}

\* C15: after getInfra every disk of the storage info is stored in exactly
\* one set of one server, and the BadDisks of set (pool, set) is the number of
\* stored disks of that set, over all its server views, whose state is not "ok".
BadDisksCountsStoredDisks ==
    (command = "hostfile" /\ runs >= 1) =>
        /\ \A k \in DOMAIN info.Disks : Cardinality(ViewsOfDisk(info.Disks[k].Endpoint)) = 1
        /\ \A pk \in DOMAIN setInfo : \A sk \in DOMAIN setInfo[pk] :
              setInfo[pk][sk].BadDisks =
                  Cardinality({d \in StoredDisks(pk, Atoi(sk)) :
                      pools[pk].Servers[d[1]].Sets[Atoi(sk)].Disks[d[2]].State # "ok"})

\* the count alone, on storage infos that name every endpoint in one set only
BadDisksCountsStoredDisksOnly ==
    (command = "hostfile" /\ runs >= 1
        /\ \A k \in DOMAIN info.Disks : Cardinality(ViewsOfDisk(info.Disks[k].Endpoint)) = 1) =>
        \A pk \in DOMAIN setInfo : \A sk \in DOMAIN setInfo[pk] :
              setInfo[pk][sk].BadDisks =
                  Cardinality({d \in StoredDisks(pk, Atoi(sk)) :
                      pools[pk].Servers[d[1]].Sets[Atoi(sk)].Disks[d[2]].State # "ok"})

(* ---- C16 ---- *)
\* the servers that are neither placed in a round nor in the failure list
LeftOver ==
    {ref \in AllServers :
        ~ServerAt(pools, ref).Processed /\ ServerAt(pools, ref).Endpoint \notin DOMAIN unhealthy}

\* C16: when the scheduler has used up its rounds and a server is still
\* neither placed nor in the failure list, the Total/Online line is printed.
HorizonExhaustionReported == (Scheduled /\ i = Horizon /\ LeftOver # {}) => reported

(* ---- C19 ---- *)
\* C19: once every server is placed in a round or in the failure list the
\* loop stops before the horizon and prints the Total/Online line, also when
\* a server is in the failure list.  (Topologies with fewer servers than
\* rounds, so that the loop reaches its completion check.)
EarlyTermination ==
    (Scheduled /\ totalServers < Horizon /\ LeftOver = {}) => (reported /\ i < Horizon)

(* ---- C20 ---- *)
\* C20: a server that is the sole server of its pool is placed in round 0 and
\* is not in the failure list, whatever the CanReboot of its sets.
SoleServerEligible ==
    Scheduled =>
        \A ref \in AllServers :
            Cardinality(DOMAIN pools[ref[1]].Servers) = 1 =>
                /\ ref \in RoundServers(0)
                /\ ServerAt(pools, ref).Endpoint \notin DOMAIN unhealthy

(* ---- C14 ---- *)
HealthRunning == command = "health" /\ pc \in {"sweep", "ping"}

AllHealthy == \A h \in DOMAIN hostMap : hostMap[h]

\* a host is marked healthy exactly when its last answer was a success, and
\* no host marked healthy is being probed
HealthMarks ==
    command = "health" =>
        /\ \A h \in DOMAIN hostMap : hostMap[h] <=> pinged[h].last = "ok"
        /\ probing # NoHost => ~hostMap[probing]
        /\ pc = "exit" => AllHealthy

\* C14: a host that answered with success is marked healthy, stays healthy
\* and is not probed again; a host with any other answer stays unhealthy and
\* is retried; healthCheck returns only when every host is healthy, and does
\* return once every host is healthy.
HealthMonitor ==
    /\ []HealthMarks
    /\ [][\A h \in DOMAIN hostMap : hostMap[h] => hostMap'[h]]_vars
    /\ ((HealthRunning /\ AllHealthy) ~> (pc = "exit"))

\* healthCheck has returned; one host answered success in the first sweep and
\* was skipped in a later sweep, in which another host succeeded after a failure
HealthMonitorWitness ==
    /\ command = "health" /\ pc = "exit"
    /\ \E a \in DOMAIN hostMap : \E b \in DOMAIN hostMap :
          /\ pinged[a].failed /\ hostMap[a]
          /\ ~pinged[b].failed /\ hostMap[b]

(* ---- C21 ---- *)
\* the goroutines that are between a Lock and its Unlock
InCriticalSection ==
    {<<"healSet", u[1], u[2]>> : u \in {v \in DOMAIN monitors :
                                          monitors[v].pc \in {"locked", "deferLocked"}}}
        \cup (IF pc \in {"registerLocked", "aggregateLocked"} THEN {<<"heal">>} ELSE {})

\* at most one goroutine is in a critical section and it is the holder of the
\* mutex; a goroutine at a heal call or a sleep is in none
OneHolder ==
    command = "heal" =>
        /\ Cardinality(InCriticalSection) <= 1
        /\ InCriticalSection = IF healMapLock = NoHolder THEN {} ELSE {healMapLock}
        /\ \A u \in DOMAIN monitors :
              monitors[u].pc \in {"start", "poll"} => healMapLock # <<"healSet", u[1], u[2]>>
        /\ pc \in {"start", "register", "aggregate"} => healMapLock # <<"heal">>

\* C21: the progress map is read and written only by the goroutine that holds
\* the mutex, at most one goroutine holds it, and none holds it during a heal
\* call or a sleep.
LockDiscipline ==
    /\ []OneHolder
    /\ [][(healMap' # healMap \/ (pc = "aggregateLocked" /\ pc' # pc))
             => (healMapLock # NoHolder /\ healMapLock' = NoHolder
                 /\ InCriticalSection = {healMapLock})]_vars

\* a monitor holds the mutex while another monitor and the aggregator wait for it
LockDisciplineWitness ==
    /\ command = "heal" /\ pc = "aggregate"
    /\ \E u \in DOMAIN monitors : \E v \in DOMAIN monitors :
          /\ u # v
          /\ healMapLock = <<"healSet", u[1], u[2]>>
          /\ monitors[u].pc = "locked"
          /\ monitors[v].pc = "update"

(* ---- C22 ---- *)
\* C22: when heal() has printed done, every monitor it started has left its
\* polling loop (it converged or stopped on an error); none is still polling.
SuccessAfterMonitorsFinished ==
    HealDone =>
        \A u \in DOMAIN monitors : monitors[u].pc \in {"defer", "deferLocked", "exited"}

(* ---- C23 ---- *)
\* the rounds that hold a server of pool pk
PoolRounds(pk) == {r \in DOMAIN rebootRounds : \E ref \in RoundServers(r) : ref[1] = pk}

EligibleServers(pk) == {sk \in DOMAIN pools[pk].Servers : areAllSetsOK(pools[pk].Servers[sk])}

\* C23: a server placed in round i > 0 shares a set with a server of its pool
\* placed in round j, for every j < i; so the non-empty rounds of a pool are
\* the rounds 0 .. k-1, and k is at most the number of its eligible servers.
GreedyPlacement ==
    /\ \A r \in DOMAIN rebootRounds : \A ref \in RoundServers(r) : \A j \in 0..(r - 1) :
          \E other \in RoundServers(j) :
              other[1] = ref[1] /\ SetsOf(other) \cap SetsOf(ref) # {}
    /\ \A pk \in DOMAIN pools :
          /\ \A r \in PoolRounds(pk) : \A j \in 0..(r - 1) : j \in PoolRounds(pk)
          /\ Cardinality(PoolRounds(pk)) <= Cardinality(EligibleServers(pk))

\* the scheduler has finished and the servers of one pool, all sharing a
\* set, were placed one per round in three rounds or more
GreedyPlacementWitness ==
    Scheduled /\ \E pk \in DOMAIN pools : {0, 1, 2} \subseteq PoolRounds(pk)

====
